---- MODULE Spec2Model ----
(***************************************************************************)
(* TargetProcess MCP: the query client (client.py) and the connectivity    *)
(* gate (config.py).                                                       *)
(*                                                                         *)
(* Five specifications over one state:                                     *)
(*   Spec       the gate, its cache and the monotonic clock, with          *)
(*              requests issued through the shared pool;                   *)
(*   SpecPool   the shared pool under concurrent requests and              *)
(*              close_http_client calls (asyncio: a task runs until its    *)
(*              next await);                                               *)
(*   SpecQuery  the filtered query operations, the parameters they send    *)
(*              and the normalisation of the response;                     *)
(*   SpecConfig the configuration provider (_Config, load_config,          *)
(*              get_token, reload_config) and the factory get_client;      *)
(*   SpecThreads check_vpn entered from several threads at once.           *)
(***************************************************************************)
EXTENDS Integers, Sequences, FiniteSets, TLC

VARIABLES
    _client,            \* client.py: the global pool slot (0 is None, else a pool id)
    pools,              \* every httpx.AsyncClient created so far, by id
    _vpn_check_cache,   \* config.py: None or <<[result, cached_time]>>
    clock,              \* time.monotonic()
    config,             \* the resolved vpn_required / vpn_check_hosts
    tasks,              \* the frame of each coroutine running a query operation
    closers,            \* the frame of each coroutine running close_http_client
    running,            \* the task inside a synchronous section (0: the loop is free)
    evals,              \* log of the gate evaluations under a gated policy
    epoch,              \* number of configuration changes so far
    ncalls,             \* number of query operations started
    ncloses,            \* number of close_http_client calls started
    environ,            \* os.environ: the three TARGETPROCESS_* variables
    config_file,        \* config.toml: None when missing or unreadable
    keychain,           \* what `security find-generic-password` prints, or None
    _config_cache,      \* config.py: None or the loaded dict
    _token_cache,       \* config.py: None or the token read from the keychain
    resolved,           \* the values the properties of config returned last
    made                \* the outcome of the last get_client call

provider == <<environ, config_file, keychain, _config_cache, _token_cache,
              resolved, made>>

vars == <<_client, pools, _vpn_check_cache, clock, config, tasks, closers,
          running, evals, epoch, ncalls, ncloses, provider>>

----------------------------------------------------------------------------
(* Bounds of the model *)

MaxCalls == 3
MaxCloses == 2
MaxPools == 3
MaxTime == 45
MaxEpoch == 1
TickStep == 15

(* Program constants *)

_VPN_CHECK_TTL == 30
DefaultTake == 100
SearchTake == 20
SprintsTake == 50

(* Two coroutines run query operations and two run close_http_client *)
Tasks == {1, 2}
Closers == {1, 2}

----------------------------------------------------------------------------
(* Optional values: None is the empty tuple, a present value x is <<x>> *)

None == <<>>
Some(x) == <<x>>
IsNone(o) == Len(o) = 0
IsSome(o) == Len(o) > 0

(* Python truthiness of an optional int and of an optional str *)
TruthyInt(o) == IsSome(o) /\ o[1] # 0
TruthyStr(o) == IsSome(o) /\ o[1] # ""

----------------------------------------------------------------------------
(* str(int), as an f-string formats it *)

Digit(d) ==
    CASE d = 0 -> "0" [] d = 1 -> "1" [] d = 2 -> "2" [] d = 3 -> "3"
      [] d = 4 -> "4" [] d = 5 -> "5" [] d = 6 -> "6" [] d = 7 -> "7"
      [] d = 8 -> "8" [] d = 9 -> "9"

RECURSIVE NatToStr(_)
NatToStr(n) ==
    IF n < 10 THEN Digit(n) ELSE NatToStr(n \div 10) \o Digit(n % 10)

IntToStr(i) == IF i < 0 THEN "-" \o NatToStr(-i) ELSE NatToStr(i)

(* The condition f-strings of client.py *)
NumCond(path, v) == "(" \o path \o " eq " \o IntToStr(v) \o ")"
StrCond(path, s) == "(" \o path \o " eq '" \o s \o "')"
ContainsCond(q) == "(Name.Contains('" \o q \o "'))"

(* " and ".join(conditions) *)
RECURSIVE Join(_)
Join(conds) ==
    IF Len(conds) = 0 THEN ""
    ELSE IF Len(conds) = 1 THEN conds[1]
    ELSE conds[1] \o " and " \o Join(Tail(conds))

(* A mutant of _build_where: the empty join is returned as it is *)
BuildWhereKeepsEmpty(conds) == Some(Join(conds))

(* TargetProcessClient._build_where: the join, or None when it is empty *)
_build_where(conds) ==
    IF Join(conds) = "" THEN None ELSE Some(Join(conds))

(* A _build_params that filters on truthiness: 0 is dropped with None *)
BuildParamsDropsFalsy(kwargs) ==
    [k \in {x \in DOMAIN kwargs :
                /\ IsSome(kwargs[x])
                /\ ~(x \in {"take", "skip"} /\ kwargs[x] = Some(0))} |-> kwargs[k][1]]

(* TargetProcessClient._build_params: the keys whose value is not None *)
_build_params(kwargs) ==
    [k \in {x \in DOMAIN kwargs : IsSome(kwargs[x])} |-> kwargs[k][1]]

----------------------------------------------------------------------------
(* JSON values: <<kind, payload>>; the payload of a list is a tuple of     *)
(* values, that of an object a function from its keys to values           *)

JNull == <<"null", 0>>
JNum(n) == <<"num", n>>
JStr(s) == <<"str", s>>
JList(items) == <<"list", items>>
JDict(f) == <<"dict", f>>

Rec1 == JDict([x \in {"id"} |-> JNum(1)])
Rec2 == JDict([x \in {"id", "name"} |-> IF x = "id" THEN JNum(2) ELSE JStr("x")])
WithItems(val) == JDict([x \in {"Items"} |-> val])

(* isinstance(data, list), isinstance(data, dict) *)
IsList(data) == data[1] = "list"
IsDict(data) == data[1] = "dict"

(* dict.get(key, default) *)
DictGet(d, key, default) == IF key \in DOMAIN d[2] THEN d[2][key] ELSE default

(* A mutant of Normalize: an object is always wrapped, "Items" or not *)
NormalizeAlwaysWraps(data) ==
    IF IsList(data) THEN data ELSE JList(<<data>>)

(* TargetProcessClient.get, the three returns after the request *)
Normalize(data) ==
    IF IsList(data) THEN data
    ELSE IF IsDict(data) THEN DictGet(data, "Items", JList(<<data>>))
    ELSE JList(<<data>>)

(* A mutant of raise_for_status: only 4xx and 5xx raise *)
RaisesOnlyClientServerErrors(status) == status >= 400

(* response.raise_for_status(): raises for a status outside 200-299 *)
RaisesForStatus(status) == ~(200 <= status /\ status <= 299)

----------------------------------------------------------------------------
(* The arguments of a query operation, every field optional; an operation  *)
(* reads only its own                                                      *)

NoArgs ==
    [project_id |-> None, feature_id |-> None, assignee_id |-> None,
     state |-> None, severity |-> None, query |-> None, entity_type |-> None,
     take |-> None]

(* The arguments of get *)
GetArgs(endpoint, include, where, take, skip, order_by) ==
    [take |-> take, endpoint |-> endpoint, include |-> include, where |-> where,
     skip |-> skip, order_by |-> order_by]

(* An optional condition appended when its test holds *)
CondIf(test, cond) == IF test THEN <<cond>> ELSE <<>>

(* TargetProcessClient.get_projects *)
get_projects(a) ==
    [conds |-> <<>>,
     g |-> GetArgs("Projects", Some("Name"), None, a.take, None, None)]

(* TargetProcessClient.search *)
search(a) ==
    LET conditions ==
            <<ContainsCond(a.query[1])>>
            \o CondIf(TruthyInt(a.project_id), NumCond("Project.Id", a.project_id[1]))
        endpoint == IF TruthyStr(a.entity_type) THEN a.entity_type[1] ELSE "UserStories"
    IN  [conds |-> conditions,
         g |-> GetArgs(endpoint, Some("Project,EntityState"),
                       _build_where(conditions), a.take, None, None)]

(* TargetProcessClient.get_user_stories *)
get_user_stories(a) ==
    LET conditions ==
            CondIf(TruthyInt(a.project_id), NumCond("Project.Id", a.project_id[1]))
            \o CondIf(TruthyInt(a.feature_id), NumCond("Feature.Id", a.feature_id[1]))
            \o CondIf(TruthyInt(a.assignee_id),
                      NumCond("Assignable.Assignee.Id", a.assignee_id[1]))
            \o CondIf(TruthyStr(a.state), StrCond("EntityState.Name", a.state[1]))
    IN  [conds |-> conditions,
         g |-> GetArgs("UserStories", Some("Project,EntityState,Assignee,Feature"),
                       _build_where(conditions), a.take, None, None)]

(* TargetProcessClient.get_bugs *)
get_bugs(a) ==
    LET conditions ==
            CondIf(TruthyInt(a.project_id), NumCond("Project.Id", a.project_id[1]))
            \o CondIf(TruthyInt(a.assignee_id), NumCond("Assignee.Id", a.assignee_id[1]))
            \o CondIf(TruthyStr(a.state), StrCond("EntityState.Name", a.state[1]))
            \o CondIf(TruthyStr(a.severity), StrCond("Severity.Name", a.severity[1]))
    IN  [conds |-> conditions,
         g |-> GetArgs("Bugs", Some("Project,EntityState,Assignee,Priority,Severity"),
                       _build_where(conditions), a.take, None, None)]

(* TargetProcessClient.get_features *)
get_features(a) ==
    LET conditions ==
            CondIf(TruthyInt(a.project_id), NumCond("Project.Id", a.project_id[1]))
            \o CondIf(TruthyStr(a.state), StrCond("EntityState.Name", a.state[1]))
    IN  [conds |-> conditions,
         g |-> GetArgs("Features", Some("Project,EntityState"),
                       _build_where(conditions), a.take, None, None)]

(* TargetProcessClient.get_sprints: no condition list, the WHERE clause is *)
(* the one condition or None; conds holds that zero or one condition       *)
get_sprints(a) ==
    LET where == IF TruthyInt(a.project_id)
                 THEN Some(NumCond("Project.Id", a.project_id[1])) ELSE None
    IN  [conds |-> where,
         g |-> GetArgs("Releases", Some("Project,Iteration"), where, a.take, None, None)]

(* TargetProcessClient.get, lines 82-88: the parameters handed to _request *)
GetParams(g) ==
    _build_params([take |-> g.take, include |-> g.include, where |-> g.where,
                   skip |-> g.skip, orderby |-> g.order_by])

(* The configured client: base_url and token, fixed at construction *)
base_url == "https://test.tpondemand.com/api/v1"
token == "test-token"

(* TargetProcessClient._request, lines 60-68: the outbound request; the    *)
(* parameters are filtered once more and an empty set is sent as None      *)
BuildRequest(g, pool) ==
    LET params == _build_params([x \in DOMAIN GetParams(g) |-> Some(GetParams(g)[x])])
    IN  [pool |-> pool,
         params |-> IF DOMAIN params = {} THEN None ELSE Some(params),
         method |-> "GET",
         url |-> base_url \o "/" \o g.endpoint \o "?token=" \o token]

----------------------------------------------------------------------------
(* The frame of a coroutine running a query operation *)

NoOutcome == [status |-> 0, kind |-> "none", value |-> JNull]

IdleFrame ==
    [conds |-> <<>>, a |-> NoArgs,
     g |-> GetArgs("", None, None, None, None, None), pool |-> 0,
     pc |-> "idle", op |-> "none",
     gate |-> None, now |-> 0, hostIdx |-> 0, tried |-> <<>>,
     sent |-> <<>>, poolStateAtGet |-> "none",
     created |-> FALSE, closedBefore |-> FALSE, closingAtGet |-> FALSE,
     response |-> None, normalized |-> FALSE, outcome |-> NoOutcome,
     policy |-> None, freshAtCall |-> None, slotRead |-> None]

(* What a frame notes of the slot as its gate is entered: the result of an *)
(* entry less than the TTL old, None when there is no such entry           *)
FreshResult(cache, now) ==
    IF IsSome(cache) /\ now - cache[1].cached_time < _VPN_CHECK_TTL
    THEN Some(cache[1].result)
    ELSE None

IdleCloser == [pc |-> "idle", ref |-> 0]

(* httpx.AsyncClient(...), client.py lines 16-23 *)
NewPool == [state |-> "open", acloses |-> 0]

(* A close_http_client call is suspended in its await of aclose *)
CloseInFlight == \E c \in Closers : closers[c].pc = "awaiting_aclose"

(* Some pool has been torn down *)
SomePoolClosed == \E p \in 1..Len(pools) : pools[p].state = "closed"

----------------------------------------------------------------------------
(* config.py check_vpn, lines 123-133: the returns that need no probe.     *)
(* Some(result) when the gate answers at once, None when it must probe     *)

(* A mutant of CacheFresh: the comparison is turned around *)
CacheFreshInverted(cache, now) ==
    IsSome(cache) /\ now - cache[1].cached_time > _VPN_CHECK_TTL

(* A mutant of CacheFresh: an entry aged exactly the TTL still counts *)
CacheFreshInclusive(cache, now) ==
    IsSome(cache) /\ now - cache[1].cached_time <= _VPN_CHECK_TTL

(* line 130-132: a cached entry younger than the TTL *)
CacheFresh(cache, now) == IsSome(cache) /\ now - cache[1].cached_time < _VPN_CHECK_TTL

(* A gate that consults the cache before it looks at the host list *)
CheckVpnCacheBeforeHosts(cfg, cache, now) ==
    IF ~cfg.vpn_required THEN Some(TRUE)
    ELSE IF CacheFresh(cache, now) THEN Some(cache[1].result)
    ELSE IF Len(cfg.vpn_check_hosts) = 0 THEN Some(TRUE)
    ELSE None

(* A gate that does not look at vpn_required *)
CheckVpnSkipsRequired(cfg, cache, now) ==
    IF Len(cfg.vpn_check_hosts) = 0 THEN Some(TRUE)
    ELSE IF CacheFresh(cache, now) THEN Some(cache[1].result)
    ELSE None

CheckVpnFast(cfg, cache, now) ==
    IF ~cfg.vpn_required THEN Some(TRUE)
    ELSE IF Len(cfg.vpn_check_hosts) = 0 THEN Some(TRUE)
    ELSE IF CacheFresh(cache, now) THEN Some(cache[1].result)
    ELSE None

(* lines 137-148: how one host answered: the TCP connect to port 443, or,  *)
(* when that raised, the name resolution                                   *)
HowAnswered(tcp, dns) == IF tcp THEN "tcp" ELSE IF dns THEN "dns" ELSE "fail"

(* A probe without the DNS fallback *)
HostAnswersTcpOnly(tcp, dns) == tcp

(* lines 137-148: a host answers when either attempt succeeds *)
HostAnswers(tcp, dns) == tcp \/ dns

(* A write that stores the result into the entry it finds and leaves the   *)
(* timestamp of that entry                                                 *)
StoredFieldwise(slot, result, now) ==
    IF IsSome(slot)
    THEN Some([cached_time |-> slot[1].cached_time, result |-> result])
    ELSE Some([cached_time |-> now, result |-> result])

(* lines 139, 145 and 151: the global is rebound to a new (result, now)    *)
(* tuple in one assignment                                                 *)
Stored(slot, result, now) == Some([cached_time |-> now, result |-> result])

(* The policy under which the gate consults its cache *)
Gated(cfg) == cfg.vpn_required /\ Len(cfg.vpn_check_hosts) > 0

(* The log of the gate evaluations made under a gated policy: when each    *)
(* started, whether it probed, what it returned, and the boolean the slot  *)
(* held when it started                                                    *)
Logged(log, start, probed, result) ==
    IF Gated(config)
    THEN Append(log, [epoch |-> epoch, result |-> result,
                      start |-> start, probed |-> probed,
                      cached |-> IF IsSome(_vpn_check_cache)
                                 THEN Some(_vpn_check_cache[1].result) ELSE None])
    ELSE log

----------------------------------------------------------------------------
(* client.py _request after the gate, lines 57-68 *)

(* line 58: raise RuntimeError("VPN connection required ...") *)
RaiseVpn(t, f) ==
    /\ tasks' = [tasks EXCEPT ![t] =
            [f EXCEPT !.pc = "done",
                      !.outcome = [status |-> 0, kind |-> "ConnectivityError",
                                   value |-> JNull]]]
    /\ UNCHANGED <<_client, pools>>

(* lines 60-68: get_http_client creates the pool when the slot is None,    *)
(* then client.request sends; a closed httpx client refuses to send        *)
SendRequest(t, f) ==
    LET create == _client = 0
        p == IF create THEN Len(pools) + 1 ELSE _client
        pools2 == IF create THEN Append(pools, NewPool) ELSE pools
        f2 == [f EXCEPT !.pool = p,
                        !.poolStateAtGet = pools2[p].state,
                        !.created = create,
                        !.closedBefore = SomePoolClosed,
                        !.closingAtGet = CloseInFlight]
    IN  /\ create => Len(pools) < MaxPools
        /\ _client' = p
        /\ pools' = pools2
        /\ IF pools2[p].state = "open"
           THEN tasks' = [tasks EXCEPT ![t] =
                    [f2 EXCEPT !.pc = "awaiting",
                               !.sent = Append(f.sent, BuildRequest(f.g, p))]]
           ELSE tasks' = [tasks EXCEPT ![t] =
                    [f2 EXCEPT !.pc = "done",
                               !.outcome = [status |-> 0, kind |-> "ClientClosedError",
                                            value |-> JNull]]]

(* A mutant of AfterGate: the gate's answer is ignored *)
AfterGateIgnored(t, f, ok) == SendRequest(t, f)

(* line 57: if not check_vpn(): raise *)
AfterGate(t, f, ok) ==
    IF ok THEN SendRequest(t, f) ELSE RaiseVpn(t, f)

----------------------------------------------------------------------------
(* The hosts and the policies a configuration can resolve to *)

HostLists == {<<>>, <<"h1">>, <<"h1", "h2">>}
Configs == [vpn_required : BOOLEAN, vpn_check_hosts : HostLists]

(* The statuses and the JSON bodies the remote service answers with *)
Statuses == {199, 200, 204, 299, 300, 404, 500}
FewStatuses == {200, 404}

Bodies ==
    {JList(<<>>), JList(<<Rec1, Rec2>>),
     WithItems(JList(<<Rec1>>)), WithItems(JList(<<>>)), WithItems(JNull),
     WithItems(JNum(7)), WithItems(Rec1),
     JDict([x \in {"Items", "Next"} |->
                IF x = "Items" THEN JList(<<Rec2>>) ELSE JStr("page2")]),
     Rec1, Rec2, JDict([x \in {} |-> JNull]),
     JNull, JNum(3), JStr("ok")}
FewBodies == {JList(<<Rec1>>)}

----------------------------------------------------------------------------
(* config.py lines 26-113: the configuration provider.                     *)
(* A URL and the output of the keychain tool are kept as the pieces that   *)
(* rstrip('/') and strip() tell apart; Text is the string they spell       *)

RECURSIVE Text(_)
Text(pieces) == IF pieces = <<>> THEN "" ELSE pieces[1] \o Text(Tail(pieces))

RECURSIVE RStrip(_, _)
RStrip(pieces, ch) ==
    IF pieces # <<>> /\ pieces[Len(pieces)] = ch
    THEN RStrip(SubSeq(pieces, 1, Len(pieces) - 1), ch)
    ELSE pieces

(* str.lower() on the values TARGETPROCESS_VPN_REQUIRED takes here *)
Lower(s) ==
    CASE s = "TRUE" -> "true"
      [] s = "True" -> "true"
      [] s = "FALSE" -> "false"
      [] OTHER -> s

(* os.getenv(name): None when the variable is not set *)
NoEnv ==
    [TARGETPROCESS_URL |-> None, TARGETPROCESS_TOKEN |-> None,
     TARGETPROCESS_VPN_REQUIRED |-> None]
Environs ==
    [TARGETPROCESS_URL : {None, Some(<<>>), Some(<<"https://env.com", "/">>)},
     TARGETPROCESS_TOKEN : {None, Some(""), Some("env-token")},
     TARGETPROCESS_VPN_REQUIRED : {None, Some("true"), Some("TRUE"), Some("false")}]

(* The dict tomllib.load returns: a key that is absent is None *)
EmptyDict == [URL |-> None, VPN_REQUIRED |-> None, VPN_CHECK_HOSTS |-> None]
ConfigFiles ==
    {None, Some(EmptyDict),
     Some([URL |-> Some(<<"https://file.com">>), VPN_REQUIRED |-> Some(TRUE),
           VPN_CHECK_HOSTS |-> Some(<<"h1">>)]),
     Some([URL |-> Some(<<"https://file.com">>), VPN_REQUIRED |-> Some(FALSE),
           VPN_CHECK_HOSTS |-> None])}
Keychains == {None, Some(<<"kc-token", "\n">>)}

(* The config.toml that resolves to the policy cfg *)
FileFor(cfg) ==
    [URL |-> Some(<<"https://test.tpondemand.com">>),
     VPN_REQUIRED |-> Some(cfg.vpn_required),
     VPN_CHECK_HOSTS |-> Some(cfg.vpn_check_hosts)]

(* load_config, lines 54-69: the cached dict, else the file, else {} *)
load_config(cache, file) ==
    IF IsSome(cache) THEN cache[1]
    ELSE IF IsSome(file) THEN file[1]
    ELSE EmptyDict

(* get_token, lines 26-51: the cached token, else the stripped output of   *)
(* the keychain tool, else None                                            *)
get_token(cache, kc) ==
    IF IsSome(cache) THEN cache
    ELSE IF IsSome(kc) THEN Some(Text(RStrip(kc[1], "\n")))
    ELSE None

(* _Config.targetprocess_url, lines 84-88 *)
targetprocess_url(env, loaded) ==
    IF IsSome(env.TARGETPROCESS_URL) /\ env.TARGETPROCESS_URL[1] # <<>>
    THEN env.TARGETPROCESS_URL[1]
    ELSE IF IsSome(loaded.URL) THEN loaded.URL[1] ELSE <<>>

(* The token property reads the keychain only when the variable is empty *)
TokenFromEnv(env) ==
    IsSome(env.TARGETPROCESS_TOKEN) /\ env.TARGETPROCESS_TOKEN[1] # ""

(* _Config.targetprocess_token, lines 91-95 *)
targetprocess_token(env, tok) ==
    IF TokenFromEnv(env) THEN env.TARGETPROCESS_TOKEN[1]
    ELSE IF IsSome(tok) THEN tok[1] ELSE ""

(* _Config.vpn_required, lines 98-101 *)
vpn_required(env, loaded) ==
    IF Lower(IF IsSome(env.TARGETPROCESS_VPN_REQUIRED)
             THEN env.TARGETPROCESS_VPN_REQUIRED[1] ELSE "") = "true"
    THEN TRUE
    ELSE IF IsSome(loaded.VPN_REQUIRED) THEN loaded.VPN_REQUIRED[1] ELSE FALSE

(* _Config.vpn_check_hosts, lines 104-105 *)
vpn_check_hosts(loaded) ==
    IF IsSome(loaded.VPN_CHECK_HOSTS) THEN loaded.VPN_CHECK_HOSTS[1] ELSE <<>>

(* _Config.api_base, lines 108-113 *)
api_base(url, tok) ==
    IF url # <<>> /\ tok # "" THEN Text(RStrip(url, "/")) \o "/api/v1" ELSE ""

(* The policy check_vpn reads at lines 123 and 126 *)
PolicyNow(env, cache, file) ==
    [vpn_required |-> vpn_required(env, load_config(cache, file)),
     vpn_check_hosts |-> vpn_check_hosts(load_config(cache, file))]

(* The names bound at module level in config.py *)
ConfigModuleNames ==
    {"os", "socket", "subprocess", "sys", "time", "Path", "Any", "tomllib",
     "KEYCHAIN_SERVICE", "CONFIG_DIR", "_vpn_check_cache", "_VPN_CHECK_TTL",
     "_config_cache", "_token_cache", "get_token", "load_config",
     "reload_config", "_Config", "config", "check_vpn"}

NotMade == [base_url |-> "", token |-> "", url |-> <<>>, kind |-> "none"]

(* client.py get_client, lines 208-220: the attributes are looked up on    *)
(* the module config, where a name that is not bound raises AttributeError *)
get_client(names, url, tok) ==
    LET raised(kind) == [base_url |-> "", token |-> tok, url |-> url, kind |-> kind]
    IN  IF "TARGETPROCESS_URL" \notin names THEN raised("AttributeError")
        ELSE IF url = <<>> THEN raised("ConfigurationError")
        ELSE IF "TARGETPROCESS_TOKEN" \notin names THEN raised("AttributeError")
        ELSE IF tok = "" THEN raised("ConfigurationError")
        ELSE IF "API_BASE" \notin names THEN raised("AttributeError")
        ELSE [base_url |-> api_base(url, tok), token |-> tok, url |-> url,
              kind |-> "client"]

(* The variables the provider does not touch *)
core == <<_client, pools, _vpn_check_cache, clock, tasks, closers, running,
          evals, ncalls, ncloses>>

(* The five properties of config are read, as get_status and check_vpn do: *)
(* load_config and, unless the variable carries the token, get_token fill  *)
(* their caches                                                            *)
Resolve ==
    LET loaded == load_config(_config_cache, config_file)
        tok == get_token(_token_cache, keychain)
        url == targetprocess_url(environ, loaded)
    IN  /\ _config_cache' = Some(loaded)
        /\ _token_cache' = IF TokenFromEnv(environ) THEN _token_cache ELSE tok
        /\ resolved' = Some([vpn_required |-> vpn_required(environ, loaded),
                             vpn_check_hosts |-> vpn_check_hosts(loaded),
                             targetprocess_url |-> url,
                             loaded |-> loaded,
                             targetprocess_token |-> targetprocess_token(environ, tok),
                             api_base |-> api_base(url,
                                             targetprocess_token(environ, tok))])
        /\ config' = PolicyNow(environ, _config_cache', config_file)
        /\ UNCHANGED <<core, epoch, environ, config_file, keychain, made>>

(* reload_config, lines 72-77: both caches are dropped and the file is     *)
(* read again; the slot of the gate is not touched                         *)
ReloadConfig ==
    /\ _config_cache' = Some(load_config(None, config_file))
    /\ _token_cache' = None
    /\ config' = PolicyNow(environ, _config_cache', config_file)
    /\ UNCHANGED <<core, epoch, environ, config_file, keychain, resolved, made>>

(* config.toml is written or removed behind the back of the process *)
FileChange ==
    /\ epoch < MaxEpoch
    /\ epoch' = epoch + 1
    /\ config_file' \in ConfigFiles \ {config_file}
    /\ config' = PolicyNow(environ, _config_cache, config_file')
    /\ UNCHANGED <<core, environ, keychain, _config_cache, _token_cache,
                   resolved, made>>

(* get_client() is awaited *)
GetClient ==
    LET loaded == load_config(_config_cache, config_file)
        tok == get_token(_token_cache, keychain)
    IN  /\ made' = get_client(ConfigModuleNames,
                              targetprocess_url(environ, loaded),
                              targetprocess_token(environ, tok))
        /\ made' # made
        /\ UNCHANGED <<core, config, epoch, environ, config_file, keychain,
                       _config_cache, _token_cache, resolved>>

----------------------------------------------------------------------------
(* A query operation is called: everything up to the first suspension.     *)
(* op(a) has built the conditions and the arguments of get; _request then  *)
(* evaluates the gate (config.py lines 123-133) and, unless it must probe, *)
(* goes on to the request                                                  *)

Invoke(t, op, a, q) ==
    /\ running = 0
    /\ tasks[t].pc = "idle"
    /\ ncalls < MaxCalls
    /\ ncalls' = ncalls + 1
    /\ LET f == [IdleFrame EXCEPT !.op = op, !.a = a, !.conds = q.conds, !.g = q.g,
                                  !.policy = Some(config),
                                  !.freshAtCall = FreshResult(_vpn_check_cache, clock)]
           fast == CheckVpnFast(config, _vpn_check_cache, clock)
       IN  IF IsSome(fast)
           THEN /\ AfterGate(t, [f EXCEPT !.gate = fast], fast[1])
                /\ evals' = Logged(evals, clock, FALSE, fast[1])
                /\ UNCHANGED <<_vpn_check_cache, running>>
           ELSE /\ tasks' = [tasks EXCEPT ![t] =
                        [f EXCEPT !.pc = "probing", !.now = clock, !.hostIdx = 1]]
                /\ running' = t
                /\ UNCHANGED <<_client, pools, _vpn_check_cache, evals>>
    /\ UNCHANGED <<clock, config, closers, epoch, ncloses, provider>>

(* config.py lines 135-152: one host of the probe loop. The TCP connect    *)
(* and, failing that, the DNS resolution answer as the network decides;    *)
(* the entry is stamped with the now read at line 129                      *)
ProbeHost(t) ==
    /\ running = t
    /\ tasks[t].pc = "probing"
    /\ \E tcp \in BOOLEAN, dns \in BOOLEAN :
         LET f == [tasks[t] EXCEPT
                       !.tried = Append(@,
                           [host |-> config.vpn_check_hosts[tasks[t].hostIdx],
                            how |-> HowAnswered(tcp, dns)])]
             last == f.hostIdx = Len(config.vpn_check_hosts)
             ok == HostAnswers(tcp, dns)
         IN  IF ok \/ last
             THEN /\ _vpn_check_cache' = Stored(_vpn_check_cache, ok, f.now)
                  /\ AfterGate(t, [f EXCEPT !.gate = Some(ok)], ok)
                  /\ evals' = Logged(evals, f.now, TRUE, ok)
                  /\ running' = 0
             ELSE /\ tasks' = [tasks EXCEPT ![t] = [f EXCEPT !.hostIdx = @ + 1]]
                  /\ UNCHANGED <<_client, pools, _vpn_check_cache, evals, running>>
    /\ UNCHANGED <<clock, config, closers, epoch, ncalls, ncloses, provider>>

(* client.py lines 69-70 and 91-95: the response arrives *)
Respond(f, status, body) ==
    IF RaisesForStatus(status)
    THEN [f EXCEPT !.pc = "done", !.response = Some([status |-> status, body |-> body]),
                   !.outcome = [status |-> status, kind |-> "UpstreamError",
                                value |-> body]]
    ELSE [f EXCEPT !.pc = "done", !.response = Some([status |-> status, body |-> body]),
                   !.normalized = TRUE,
                   !.outcome = [status |-> status, kind |-> "ok",
                                value |-> Normalize(body)]]

Response(t, statuses, bodies) ==
    /\ running = 0
    /\ tasks[t].pc = "awaiting"
    /\ \E status \in statuses, body \in bodies :
         tasks' = [tasks EXCEPT ![t] = Respond(tasks[t], status, body)]
    /\ UNCHANGED <<_client, pools, _vpn_check_cache, clock, config, closers,
                   running, evals, epoch, ncalls, ncloses, provider>>

(* The operation has returned or raised and its caller has the outcome:   *)
(* the frame is gone                                                      *)
Return(t) ==
    /\ running = 0
    /\ tasks[t].pc = "done"
    /\ tasks' = [tasks EXCEPT ![t] = IdleFrame]
    /\ UNCHANGED <<_client, pools, _vpn_check_cache, clock, config, closers,
                   running, evals, epoch, ncalls, ncloses, provider>>

(* The request of a pool that is no longer open fails in the transport *)
ResponseLost(t) ==
    /\ running = 0
    /\ tasks[t].pc = "awaiting"
    /\ pools[tasks[t].pool].state # "open"
    /\ tasks' = [tasks EXCEPT ![t] =
            [@ EXCEPT !.pc = "done",
                      !.outcome = [status |-> 0, kind |-> "TransportError",
                                   value |-> JNull]]]
    /\ UNCHANGED <<_client, pools, _vpn_check_cache, clock, config, closers,
                   running, evals, epoch, ncalls, ncloses, provider>>

----------------------------------------------------------------------------
(* client.py close_http_client, lines 29-31: up to the await of aclose.    *)
(* The slot still names the pool while the coroutine is suspended          *)

CloseBegin(c) ==
    /\ running = 0
    /\ closers[c].pc = "idle"
    /\ ncloses < MaxCloses
    /\ ncloses' = ncloses + 1
    /\ IF _client = 0
       THEN UNCHANGED <<closers, pools>>
       ELSE /\ closers' = [closers EXCEPT ![c] =
                    [pc |-> "awaiting_aclose", ref |-> _client]]
            /\ pools' = [pools EXCEPT ![_client] =
                    [state |-> IF @.state = "open" THEN "closing" ELSE @.state,
                     acloses |-> @.acloses + 1]]
    /\ UNCHANGED <<_client, _vpn_check_cache, clock, config, tasks, running,
                   evals, epoch, ncalls, provider>>

(* line 32: aclose has returned, the slot is cleared whatever it holds *)
CloseFinish(c) ==
    /\ running = 0
    /\ closers[c].pc = "awaiting_aclose"
    /\ pools' = [pools EXCEPT ![closers[c].ref].state = "closed"]
    /\ _client' = 0
    /\ closers' = [closers EXCEPT ![c] = IdleCloser]
    /\ UNCHANGED <<_vpn_check_cache, clock, config, tasks, running, evals,
                   epoch, ncalls, ncloses, provider>>

(* time.monotonic() advances, also while a probe is under way *)
Tick ==
    /\ clock + TickStep <= MaxTime
    /\ clock' = clock + TickStep
    /\ UNCHANGED <<_client, pools, _vpn_check_cache, config, tasks, closers,
                   running, evals, epoch, ncalls, ncloses, provider>>

(* A reload that also drops the entry of the gate *)
ConfigChangeClearsCache ==
    /\ running = 0
    /\ epoch < MaxEpoch
    /\ epoch' = epoch + 1
    /\ config' \in Configs \ {config}
    /\ config_file' = Some(FileFor(config'))
    /\ _config_cache' = Some(FileFor(config'))
    /\ _token_cache' = None
    /\ _vpn_check_cache' = None
    /\ UNCHANGED <<_client, pools, clock, tasks, closers, running, evals, ncalls,
                   ncloses, environ, keychain, resolved, made>>

(* The configuration resolves to another policy: config.toml is rewritten  *)
(* and reload_config reads it again; the gate's cache slot is left alone   *)
ConfigChange ==
    /\ running = 0
    /\ epoch < MaxEpoch
    /\ epoch' = epoch + 1
    /\ config' \in Configs \ {config}
    /\ config_file' = Some(FileFor(config'))
    /\ _config_cache' = Some(FileFor(config'))
    /\ _token_cache' = None
    /\ UNCHANGED <<_client, pools, _vpn_check_cache, clock, tasks, closers,
                   running, evals, ncalls, ncloses, environ, keychain, resolved,
                   made>>

----------------------------------------------------------------------------
(* check_vpn entered from several threads: a thread may be preempted       *)
(* between any two reads or writes of the module globals                   *)

(* lines 123-129: the policy is read; a gated thread reads the clock *)
ThreadEnter(t) ==
    /\ tasks[t].pc = "idle"
    /\ ncalls < MaxCalls
    /\ ncalls' = ncalls + 1
    /\ LET f == [IdleFrame EXCEPT !.op = "check_vpn", !.policy = Some(config),
                                  !.freshAtCall = FreshResult(_vpn_check_cache, clock)]
       IN  tasks' = [tasks EXCEPT ![t] =
               IF Gated(config)
               THEN [f EXCEPT !.pc = "line130", !.now = clock]
               ELSE [f EXCEPT !.pc = "done", !.gate = Some(TRUE)]]
    /\ UNCHANGED <<_client, pools, _vpn_check_cache, clock, config, closers,
                   running, evals, epoch, ncloses, provider>>

(* line 130: if _vpn_check_cache is not None *)
ThreadTestSlot(t) ==
    /\ tasks[t].pc = "line130"
    /\ tasks' = [tasks EXCEPT ![t] =
            IF IsSome(_vpn_check_cache)
            THEN [@ EXCEPT !.pc = "line131"]
            ELSE [@ EXCEPT !.pc = "probing", !.hostIdx = 1]]
    /\ UNCHANGED <<_client, pools, _vpn_check_cache, clock, config, closers,
                   running, evals, epoch, ncalls, ncloses, provider>>

(* lines 131-133: the tuple the global names now is unpacked and served    *)
(* when it is younger than the TTL                                         *)
ThreadUnpack(t) ==
    /\ tasks[t].pc = "line131"
    /\ LET f == [tasks[t] EXCEPT !.slotRead = _vpn_check_cache]
       IN  IF CacheFresh(_vpn_check_cache, f.now)
           THEN /\ tasks' = [tasks EXCEPT ![t] =
                        [f EXCEPT !.pc = "done",
                                  !.gate = Some(_vpn_check_cache[1].result)]]
                /\ evals' = Logged(evals, f.now, FALSE, _vpn_check_cache[1].result)
           ELSE /\ tasks' = [tasks EXCEPT ![t] =
                        [f EXCEPT !.pc = "probing", !.hostIdx = 1]]
                /\ UNCHANGED evals
    /\ UNCHANGED <<_client, pools, _vpn_check_cache, clock, config, closers,
                   running, epoch, ncalls, ncloses, provider>>

(* lines 135-152: one host of the probe loop *)
ThreadProbe(t) ==
    /\ tasks[t].pc = "probing"
    /\ \E tcp \in BOOLEAN, dns \in BOOLEAN :
         LET f == [tasks[t] EXCEPT
                       !.tried = Append(@,
                           [host |-> config.vpn_check_hosts[tasks[t].hostIdx],
                            how |-> HowAnswered(tcp, dns)])]
             last == f.hostIdx = Len(config.vpn_check_hosts)
             ok == HostAnswers(tcp, dns)
         IN  IF ok \/ last
             THEN /\ _vpn_check_cache' = Stored(_vpn_check_cache, ok, f.now)
                  /\ tasks' = [tasks EXCEPT ![t] =
                          [f EXCEPT !.pc = "done", !.gate = Some(ok)]]
                  /\ evals' = Logged(evals, f.now, TRUE, ok)
             ELSE /\ tasks' = [tasks EXCEPT ![t] = [f EXCEPT !.hostIdx = @ + 1]]
                  /\ UNCHANGED <<_vpn_check_cache, evals>>
    /\ UNCHANGED <<_client, pools, clock, config, closers, running, epoch,
                   ncalls, ncloses, provider>>

----------------------------------------------------------------------------
(* The calls of the query operations, with the arguments a caller may pass *)

Ids == {None, Some(0), Some(5)}
Names == {None, Some(""), Some("Open")}
Queries == {"login", ""}
EntityTypes == {None, Some(""), Some("Bugs")}

Get(t) ==
    \E include \in {None, Some("Name")}, where \in {None, Some("(Id eq 1)")},
       take \in {None, Some(0), Some(DefaultTake)}, skip \in {None, Some(0), Some(10)},
       order_by \in {None, Some("Name")} :
        Invoke(t, "get", NoArgs,
               [conds |-> <<>>,
                g |-> GetArgs("Projects", include, where, take, skip, order_by)])

GetProjects(t) ==
    LET a == [NoArgs EXCEPT !.take = Some(DefaultTake)]
    IN  Invoke(t, "get_projects", a, get_projects(a))

Search(t) ==
    \E query \in Queries, entity_type \in EntityTypes, project_id \in Ids :
        LET a == [NoArgs EXCEPT !.query = Some(query), !.entity_type = entity_type,
                                !.project_id = project_id, !.take = Some(SearchTake)]
        IN  Invoke(t, "search", a, search(a))

GetUserStories(t) ==
    \E project_id \in Ids, feature_id \in Ids, assignee_id \in Ids, state \in Names :
        LET a == [NoArgs EXCEPT !.project_id = project_id, !.feature_id = feature_id,
                                !.assignee_id = assignee_id, !.state = state,
                                !.take = Some(DefaultTake)]
        IN  Invoke(t, "get_user_stories", a, get_user_stories(a))

GetBugs(t) ==
    \E project_id \in Ids, assignee_id \in Ids, state \in Names, severity \in Names :
        LET a == [NoArgs EXCEPT !.project_id = project_id, !.assignee_id = assignee_id,
                                !.state = state, !.severity = severity,
                                !.take = Some(DefaultTake)]
        IN  Invoke(t, "get_bugs", a, get_bugs(a))

GetFeatures(t) ==
    \E project_id \in Ids, state \in Names :
        LET a == [NoArgs EXCEPT !.project_id = project_id, !.state = state,
                                !.take = Some(DefaultTake)]
        IN  Invoke(t, "get_features", a, get_features(a))

GetSprints(t) ==
    \E project_id \in Ids :
        LET a == [NoArgs EXCEPT !.project_id = project_id, !.take = Some(SprintsTake)]
        IN  Invoke(t, "get_sprints", a, get_sprints(a))

----------------------------------------------------------------------------
(* The state after import: no pool, no cache entry, nothing running *)

Init ==
    /\ _client = 0
    /\ pools = <<>>
    /\ _vpn_check_cache = None
    /\ clock = 0
    /\ config \in Configs
    /\ tasks = [t \in Tasks |-> IdleFrame]
    /\ closers = [c \in Closers |-> IdleCloser]
    /\ running = 0
    /\ evals = <<>>
    /\ epoch = 0
    /\ ncalls = 0
    /\ ncloses = 0
    /\ environ = NoEnv
    /\ config_file = Some(FileFor(config))
    /\ keychain = Some(<<token, "\n">>)
    /\ _config_cache = Some(FileFor(config))
    /\ _token_cache = Some(token)
    /\ resolved = None
    /\ made = NotMade

(* The gate and the requests behind it *)
Next ==
    \/ \E t \in Tasks : GetProjects(t)
    \/ \E t \in Tasks : ProbeHost(t)
    \/ \E t \in Tasks : Response(t, FewStatuses, FewBodies)
    \/ \E t \in Tasks : Return(t)
    \/ Tick
    \/ ConfigChange

Spec == Init /\ [][Next]_vars

(* The shared pool under concurrent requests and shutdowns *)
NextPool ==
    \/ \E t \in Tasks : GetProjects(t)
    \/ \E t \in Tasks : ProbeHost(t)
    \/ \E t \in Tasks : Response(t, FewStatuses, FewBodies)
    \/ \E t \in Tasks : ResponseLost(t)
    \/ \E t \in Tasks : Return(t)
    \/ \E c \in Closers : CloseBegin(c)
    \/ \E c \in Closers : CloseFinish(c)

SpecPool == Init /\ [][NextPool]_vars

(* The query operations of one caller, one call after the other *)
NextQuery ==
    \/ Get(1)
    \/ GetProjects(1)
    \/ Search(1)
    \/ GetUserStories(1)
    \/ GetBugs(1)
    \/ GetFeatures(1)
    \/ GetSprints(1)
    \/ ProbeHost(1)
    \/ Response(1, Statuses, Bodies)
    \/ Return(1)

SpecQuery == Init /\ [][NextQuery]_vars

(* The configuration provider and the factory: the environment, the file   *)
(* and the keychain are whatever the host set up; nothing is cached yet    *)
InitConfig ==
    /\ _client = 0
    /\ pools = <<>>
    /\ _vpn_check_cache = None
    /\ clock = 0
    /\ tasks = [t \in Tasks |-> IdleFrame]
    /\ closers = [c \in Closers |-> IdleCloser]
    /\ running = 0
    /\ evals = <<>>
    /\ epoch = 0
    /\ ncalls = 0
    /\ ncloses = 0
    /\ environ \in Environs
    /\ config_file \in ConfigFiles
    /\ keychain \in Keychains
    /\ _config_cache = None
    /\ _token_cache = None
    /\ resolved = None
    /\ made = NotMade
    /\ config = PolicyNow(environ, _config_cache, config_file)

NextConfig ==
    \/ Resolve
    \/ ReloadConfig
    \/ FileChange
    \/ GetClient

SpecConfig == InitConfig /\ [][NextConfig]_vars

(* check_vpn called from two threads while the clock runs *)
NextThreads ==
    \/ \E t \in Tasks : ThreadEnter(t)
    \/ \E t \in Tasks : ThreadTestSlot(t)
    \/ \E t \in Tasks : ThreadUnpack(t)
    \/ \E t \in Tasks : ThreadProbe(t)
    \/ \E t \in Tasks : Return(t)
    \/ Tick

SpecThreads == Init /\ [][NextThreads]_vars

----------------------------------------------------------------------------
(* Claims *)

(* C1: in every call the gate is evaluated before any outbound request: a  *)
(* call whose gate returned false ends in the connectivity error with no   *)
(* HTTP request issued, and a call has issued a request (or taken a pool)  *)
(* only after its own gate evaluation returned true                        *)
C1_GateBeforeRequest ==
    \A t \in Tasks :
        LET f == tasks[t]
        IN  /\ (f.sent # <<>> \/ f.pool # 0) => f.gate = Some(TRUE)
            /\ f.gate = Some(FALSE) =>
                   /\ f.pc = "done"
                   /\ f.outcome.kind = "ConnectivityError"
                   /\ f.sent = <<>>
            /\ f.outcome.kind = "ConnectivityError" => f.gate = Some(FALSE)

(* A call denied by the gate: connectivity error, nothing sent *)
C1_Witness ==
    \E t \in Tasks :
        /\ tasks[t].gate = Some(FALSE)
        /\ tasks[t].outcome.kind = "ConnectivityError"
        /\ tasks[t].sent = <<>>
        /\ tasks[t].tried # <<>>

(* Two logged gate evaluations, the earlier i and the later j, that start  *)
(* less than the TTL apart with no configuration change in between         *)
WithinWindow(i, j) ==
    /\ i < j
    /\ evals[j].start - evals[i].start < _VPN_CHECK_TTL
    /\ evals[i].epoch = evals[j].epoch

(* C2 as stated: of two such evaluations at most one probes, and the later *)
(* one returns the cached boolean without probing                          *)
C2_LaterAlwaysServedFromCache ==
    \A i, j \in 1..Len(evals) :
        WithinWindow(i, j) =>
            /\ ~(evals[i].probed /\ evals[j].probed)
            /\ ~evals[j].probed
            /\ evals[j].cached = Some(evals[j].result)

(* C2 as amended: of two such evaluations at most one probes, and when the *)
(* earlier one probed, the later one returns the boolean that probe cached *)
(* without probing                                                         *)
C2_AtMostOneProbeInWindow ==
    \A i, j \in 1..Len(evals) :
        WithinWindow(i, j) =>
            /\ ~(evals[i].probed /\ evals[j].probed)
            /\ evals[i].probed =>
                   /\ ~evals[j].probed
                   /\ evals[j].cached = Some(evals[i].result)
                   /\ evals[j].result = evals[i].result

(* A probe, then a later evaluation inside the window served from cache,   *)
(* for a cached true and for a cached false                                *)
C2_Witness ==
    \E i, j \in 1..Len(evals) :
        /\ WithinWindow(i, j)
        /\ evals[j].start > evals[i].start
        /\ evals[i].probed /\ ~evals[i].result
        /\ ~evals[j].probed /\ ~evals[j].result

(* C3: once a pool has been torn down, no call creates a new pool          *)
(* implicitly                                                              *)
C3_NoRecreationAfterTeardown ==
    \A t \in Tasks : ~(tasks[t].created /\ tasks[t].closedBefore)

(* A pool nothing can dispose of any more: open, not in the slot, and not  *)
(* held by a suspended close_http_client                                   *)
Leaked(p) ==
    /\ pools[p].state = "open"
    /\ _client # p
    /\ \A c \in Closers : closers[c].ref # p

(* C4: under any interleaving every pool is disposed exactly once (aclose  *)
(* is never called twice on a pool and no pool is left that can never be   *)
(* closed), no request obtains a pool that is being closed or is closed,   *)
(* and no pool is created while a shutdown is in flight                    *)
C4_DisposedOnceNoRace ==
    /\ \A p \in 1..Len(pools) : pools[p].acloses <= 1 /\ ~Leaked(p)
    /\ \A t \in Tasks :
        /\ tasks[t].pool # 0 => tasks[t].poolStateAtGet = "open"
        /\ ~(tasks[t].created /\ tasks[t].closingAtGet)

(* The response of a finished call *)
ResponseOf(f) == f.response[1]

(* C5: on success a list body is returned unchanged, an object with an     *)
(* "Items" key yields that key's value, any other object is wrapped in a   *)
(* single-element list                                                     *)
C5_NormalizesThreeWays ==
    \A t \in Tasks :
        LET f == tasks[t]
        IN  (f.pc = "done" /\ IsSome(f.response)
                /\ 200 <= ResponseOf(f).status /\ ResponseOf(f).status <= 299) =>
                LET body == ResponseOf(f).body
                IN  /\ f.outcome.kind = "ok"
                    /\ body[1] = "list" => f.outcome.value = body
                    /\ (body[1] = "dict" /\ "Items" \in DOMAIN body[2]) =>
                           f.outcome.value = body[2]["Items"]
                    /\ (body[1] = "dict" /\ "Items" \notin DOMAIN body[2]) =>
                           f.outcome.value = <<"list", <<body>>>>

(* A paginated wrapper answered with 200 and unwrapped *)
C5_Witness ==
    \E t \in Tasks :
        /\ tasks[t].outcome.kind = "ok"
        /\ ResponseOf(tasks[t]).body = WithItems(JList(<<Rec1>>))
        /\ tasks[t].outcome.value = JList(<<Rec1>>)

(* C6: whatever JSON body comes with a 2xx status, get returns a list *)
C6_AlwaysAList ==
    \A t \in Tasks :
        tasks[t].outcome.kind = "ok" => tasks[t].outcome.value[1] = "list"

(* C7: a status outside 200-299 ends the call in the upstream error that   *)
(* carries the status and the body; the body is not normalised, nothing is *)
(* returned, and the request was sent once                                 *)
C7_Non2xxRaisesUpstreamError ==
    \A t \in Tasks :
        LET f == tasks[t]
        IN  (f.pc = "done" /\ IsSome(f.response)
                /\ ~(200 <= ResponseOf(f).status /\ ResponseOf(f).status <= 299)) =>
                /\ f.outcome.kind = "UpstreamError"
                /\ f.outcome.status = ResponseOf(f).status
                /\ f.outcome.value = ResponseOf(f).body
                /\ ~f.normalized
                /\ Len(f.sent) = 1

(* A redirect status answered to a call: upstream error *)
C7_Witness ==
    \E t \in Tasks :
        /\ tasks[t].pc = "done"
        /\ IsSome(tasks[t].response)
        /\ ResponseOf(tasks[t]).status = 300
        /\ tasks[t].outcome.kind = "UpstreamError"
        /\ ~tasks[t].normalized

(* The numeric filters of each operation, with the field each is compared  *)
(* against                                                                 *)
NumericFilters(op) ==
    CASE op = "get_user_stories" ->
            {<<"project_id", "Project.Id">>, <<"feature_id", "Feature.Id">>,
             <<"assignee_id", "Assignable.Assignee.Id">>}
      [] op = "get_bugs" ->
            {<<"project_id", "Project.Id">>, <<"assignee_id", "Assignee.Id">>}
      [] op \in {"get_features", "get_sprints", "search"} ->
            {<<"project_id", "Project.Id">>}
      [] OTHER -> {}

(* C8: every numeric filter that is supplied, 0 included, contributes its  *)
(* condition to the WHERE clause                                           *)
C8_SuppliedNumericFilterIncluded ==
    \A t \in Tasks :
        LET f == tasks[t]
        IN  \A nf \in NumericFilters(f.op) :
                IsSome(f.a[nf[1]]) =>
                    /\ \E i \in 1..Len(f.conds) :
                           f.conds[i] = NumCond(nf[2], f.a[nf[1]][1])
                    /\ IsSome(f.g.where)

(* Every filter argument of the call is unset *)
AllFiltersUnset(a) ==
    /\ IsNone(a.project_id) /\ IsNone(a.feature_id) /\ IsNone(a.assignee_id)
    /\ IsNone(a.state) /\ IsNone(a.severity)

FilteredOps == {"get_user_stories", "get_bugs", "get_features", "get_sprints"}

(* C9: with every filter unset the condition list is empty, the WHERE      *)
(* clause is None and the request sent carries no where parameter          *)
C9_NoFiltersNoWhere ==
    \A t \in Tasks :
        LET f == tasks[t]
        IN  (f.op \in FilteredOps /\ AllFiltersUnset(f.a)) =>
                /\ f.conds = <<>>
                /\ f.g.where = None
                /\ \A i \in 1..Len(f.sent) :
                       /\ IsSome(f.sent[i].params)
                       /\ "where" \notin DOMAIN f.sent[i].params[1]
                       /\ "take" \in DOMAIN f.sent[i].params[1]

(* get_user_stories() with no filter, sent without a where parameter *)
C9_Witness ==
    \E t \in Tasks :
        /\ tasks[t].op = "get_user_stories"
        /\ AllFiltersUnset(tasks[t].a)
        /\ Len(tasks[t].sent) = 1
        /\ DOMAIN tasks[t].sent[1].params[1] = {"include", "take"}

(* C10: search queries entity_type, or the default collection when none is *)
(* given; its WHERE clause is the name-contains condition alone when       *)
(* project_id is not given, and name-contains and project-id-equals joined *)
(* by " and ", in that order, when it is                                   *)
C10_SearchWhere ==
    \A t \in Tasks :
        LET f == tasks[t]
        IN  f.op = "search" =>
                /\ f.g.endpoint =
                       IF IsNone(f.a.entity_type) \/ f.a.entity_type = Some("")
                       THEN "UserStories" ELSE f.a.entity_type[1]
                /\ f.g.where =
                       IF IsNone(f.a.project_id)
                       THEN Some("(Name.Contains('" \o f.a.query[1] \o "'))")
                       ELSE Some("(Name.Contains('" \o f.a.query[1] \o "'))"
                                 \o " and "
                                 \o "(Project.Id eq " \o IntToStr(f.a.project_id[1])
                                 \o ")")

(* The argument of get that travels under a parameter key *)
ParamKeys == {"include", "where", "take", "skip", "orderby"}
ArgOf(g, key) ==
    CASE key = "include" -> g.include
      [] key = "where" -> g.where
      [] key = "take" -> g.take
      [] key = "skip" -> g.skip
      [] key = "orderby" -> g.order_by

(* C11: the parameter set of an outbound request holds exactly the         *)
(* arguments of get whose value is not None, under the keys include,       *)
(* where, take, skip and orderby: a None argument is never sent and a      *)
(* present falsy value (0) is sent with its value                          *)
C11_ExactlyNonNoneArgsSent ==
    \A t \in Tasks :
        LET f == tasks[t]
        IN  \A i \in 1..Len(f.sent) :
                LET sentParams == f.sent[i].params
                    sentKeys == IF IsSome(sentParams) THEN DOMAIN sentParams[1] ELSE {}
                IN  /\ sentKeys = {k \in ParamKeys : IsSome(ArgOf(f.g, k))}
                    /\ \A k \in sentKeys : sentParams[1][k] = ArgOf(f.g, k)[1]

(* get('Projects', take=0, skip=0) was sent: both zeros travel, the three  *)
(* None arguments do not                                                   *)
C11_Witness ==
    \E t \in Tasks :
        /\ tasks[t].op = "get"
        /\ Len(tasks[t].sent) = 1
        /\ tasks[t].g.take = Some(0)
        /\ tasks[t].g.skip = Some(0)
        /\ IsNone(tasks[t].g.include)
        /\ IsNone(tasks[t].g.where)
        /\ IsNone(tasks[t].g.order_by)
        /\ IsSome(tasks[t].sent[1].params)
        /\ DOMAIN tasks[t].sent[1].params[1] = {"take", "skip"}
        /\ tasks[t].sent[1].params[1]["take"] = 0
        /\ tasks[t].sent[1].params[1]["skip"] = 0

(* When the gate of f was entered the slot held an entry younger than the  *)
(* TTL, with this result                                                   *)
FreshAtCall(f, result) == f.freshAtCall = Some(result)

(* C12: when the policy says the VPN is not required, the gate returns     *)
(* true whatever the cache slot holds and whatever the host list is, and   *)
(* no host is probed                                                       *)
C12_NotRequiredAlwaysTrue ==
    \A t \in Tasks :
        LET f == tasks[t]
        IN  (IsSome(f.policy) /\ ~f.policy[1].vpn_required) =>
                /\ f.pc # "probing"
                /\ f.gate = Some(TRUE)
                /\ f.tried = <<>>

(* The gate let a request through under required = false and a non-empty  *)
(* host list while the slot held a fresh false                             *)
C12_Witness ==
    \E t \in Tasks :
        /\ IsSome(tasks[t].policy)
        /\ ~tasks[t].policy[1].vpn_required
        /\ Len(tasks[t].policy[1].vpn_check_hosts) > 0
        /\ FreshAtCall(tasks[t], FALSE)
        /\ tasks[t].gate = Some(TRUE)
        /\ Len(tasks[t].sent) = 1

(* C13: when the VPN is required and the host list is empty, the gate      *)
(* returns true at once, without probing, also when the slot holds a       *)
(* fresh false                                                             *)
C13_NoHostsAlwaysTrue ==
    \A t \in Tasks :
        LET f == tasks[t]
        IN  (/\ IsSome(f.policy)
             /\ f.policy[1].vpn_required
             /\ Len(f.policy[1].vpn_check_hosts) = 0) =>
                /\ f.pc # "probing"
                /\ f.gate = Some(TRUE)
                /\ f.tried = <<>>

(* The gate let a request through under required = true and no hosts       *)
(* while the slot held a fresh false                                       *)
C13_Witness ==
    \E t \in Tasks :
        /\ IsSome(tasks[t].policy)
        /\ tasks[t].policy[1].vpn_required
        /\ tasks[t].policy[1].vpn_check_hosts = <<>>
        /\ FreshAtCall(tasks[t], FALSE)
        /\ tasks[t].gate = Some(TRUE)
        /\ Len(tasks[t].sent) = 1

(* C14: a probe visits the hosts in the configured order; it stops at the  *)
(* first host whose TCP connect or, failing that, DNS resolution succeeds, *)
(* caching and returning true without probing the later hosts; it caches   *)
(* and returns false only when both attempts failed for every host; the    *)
(* failure of a host is not raised, the loop goes on to the next host      *)
C14_ProbeInOrderFirstSuccess ==
    [][\A t \in Tasks :
          LET f == tasks[t]
              g == tasks'[t]
              hosts == config.vpn_check_hosts
              n == Len(g.tried)
          IN  (f.pc = "probing" /\ g # f) =>
                  /\ n = Len(f.tried) + 1
                  /\ n <= Len(hosts)
                  /\ \A i \in 1..n : g.tried[i].host = hosts[i]
                  /\ \A i \in 1..(n - 1) : g.tried[i].how = "fail"
                  /\ IF g.pc = "probing"
                     THEN /\ g.tried[n].how = "fail"
                          /\ n < Len(hosts)
                          /\ IsNone(g.gate)
                          /\ _vpn_check_cache' = _vpn_check_cache
                     ELSE /\ g.gate = Some(g.tried[n].how # "fail")
                          /\ g.tried[n].how = "fail" => n = Len(hosts)
                          /\ _vpn_check_cache' =
                                 Some([cached_time |-> f.now,
                                       result |-> g.tried[n].how # "fail"])
                          /\ g.outcome.kind =
                                 IF g.tried[n].how = "fail"
                                 THEN "ConnectivityError" ELSE "none"
      ]_vars

(* The first host failed both ways, the second answered the name lookup    *)
(* only: the gate returned true and the request went out                   *)
C14_Witness ==
    \E t \in Tasks :
        /\ Len(tasks[t].tried) = 2
        /\ tasks[t].tried[1] = [host |-> "h1", how |-> "fail"]
        /\ tasks[t].tried[2] = [host |-> "h2", how |-> "dns"]
        /\ tasks[t].gate = Some(TRUE)
        /\ Len(tasks[t].sent) = 1

(* C15: get_client fails with the configuration error, whose message says  *)
(* "not configured" and names the remedy, whenever the resolved URL or the *)
(* resolved token is missing; otherwise it returns a client whose base_url *)
(* is the configured API base and whose token is the configured token      *)
C15_FactoryChecksConfiguration ==
    made.kind # "none" =>
        IF made.url = <<>> \/ made.token = ""
        THEN made.kind = "ConfigurationError"
        ELSE /\ made.kind = "client"
             /\ made.base_url = api_base(made.url, made.token)

(* C16: each configuration value is resolved with the precedence           *)
(* environment variable, then file, then (token only) secret store: when   *)
(* the environment variable of a value is set, its value is the one the    *)
(* property returns, whatever the file holds                               *)
C16_EnvironmentWins ==
    IsSome(resolved) =>
        LET r == resolved[1]
        IN  /\ (IsSome(environ.TARGETPROCESS_URL)
                    /\ environ.TARGETPROCESS_URL[1] # <<>>) =>
                   r.targetprocess_url = environ.TARGETPROCESS_URL[1]
            /\ (IsSome(environ.TARGETPROCESS_TOKEN)
                    /\ environ.TARGETPROCESS_TOKEN[1] # "") =>
                   r.targetprocess_token = environ.TARGETPROCESS_TOKEN[1]
            /\ IsSome(environ.TARGETPROCESS_VPN_REQUIRED) =>
                   r.vpn_required =
                       (Lower(environ.TARGETPROCESS_VPN_REQUIRED[1]) = "true")

(* C17: every write to the cache slot stamps the monotonic time current at *)
(* the moment of the write: after a probe that took time, the stored       *)
(* timestamp is the clock value at which the result is cached              *)
C17_StampIsTimeOfWrite ==
    [][_vpn_check_cache' # _vpn_check_cache =>
           _vpn_check_cache'[1].cached_time = clock']_vars

(* The pair was written by one probe: some probe started at its timestamp  *)
(* and returned its result                                                 *)
WrittenByOneProbe(entry) ==
    \E i \in 1..Len(evals) :
        /\ evals[i].probed
        /\ evals[i].start = entry.cached_time
        /\ evals[i].result = entry.result

(* C18: under any interleaving of concurrent gate evaluations no reader    *)
(* sees a torn entry: every (result, timestamp) pair in the slot, and      *)
(* every pair a reader unpacked, was written as one pair by one probe; a   *)
(* reader served from the slot returns the result of a pair younger than   *)
(* the TTL by its own clock reading                                        *)
C18_NoTornEntry ==
    /\ IsSome(_vpn_check_cache) => WrittenByOneProbe(_vpn_check_cache[1])
    /\ \A t \in Tasks :
           LET f == tasks[t]
           IN  IsSome(f.slotRead) =>
                   /\ WrittenByOneProbe(f.slotRead[1])
                   /\ (f.pc = "done" /\ f.tried = <<>>) =>
                          /\ f.gate = Some(f.slotRead[1].result)
                          /\ f.now - f.slotRead[1].cached_time < _VPN_CHECK_TTL

(* A race: between this thread's clock reading and its read of the slot    *)
(* another thread's probe, started later, stored its pair; the thread was  *)
(* served that pair                                                        *)
C18_Witness ==
    \E t \in Tasks :
        /\ tasks[t].pc = "done"
        /\ tasks[t].tried = <<>>
        /\ IsSome(tasks[t].slotRead)
        /\ tasks[t].slotRead[1].cached_time > tasks[t].now
        /\ tasks[t].gate = Some(tasks[t].slotRead[1].result)

(* C19: a gate evaluation that returns without probing leaves the cache    *)
(* slot as it was, a cache hit does not refresh the timestamp: the slot    *)
(* changes only when a probe completes, and a result is served from the    *)
(* slot only while less than 30 units have passed since the timestamp of   *)
(* the probe that produced it                                              *)
C19_SlotChangesOnlyOnProbe ==
    [][/\ _vpn_check_cache' # _vpn_check_cache =>
              \E t \in Tasks : tasks[t].pc = "probing" /\ tasks'[t].pc # "probing"
       /\ \A t \in Tasks :
              (tasks[t].pc = "idle" /\ tasks'[t].pc \notin {"idle", "probing"}) =>
                  /\ _vpn_check_cache' = _vpn_check_cache
                  /\ tasks'[t].tried = <<>>
                  /\ Gated(config) =>
                         /\ IsSome(_vpn_check_cache)
                         /\ tasks'[t].gate = Some(_vpn_check_cache[1].result)
                         /\ clock - _vpn_check_cache[1].cached_time < _VPN_CHECK_TTL
      ]_vars

(* The last gated evaluation was a cache hit, later than the probe, and    *)
(* the slot still carries the probe's timestamp                            *)
C19_Witness ==
    /\ Len(evals) >= 2
    /\ evals[Len(evals) - 1].probed
    /\ ~evals[Len(evals)].probed
    /\ evals[Len(evals)].start > evals[Len(evals) - 1].start
    /\ _vpn_check_cache =
           Some([cached_time |-> evals[Len(evals) - 1].start,
                 result |-> evals[Len(evals) - 1].result])

(* C20: the cache is one slot, not keyed by the host list and not cleared  *)
(* when the configuration is reloaded: after a probe, every gate           *)
(* evaluation under required = true and a non-empty host list that starts  *)
(* less than 30 units after the entry's timestamp returns the cached       *)
(* boolean without probing, also when the host list has changed since; a   *)
(* cached false makes every call fail with the connectivity error, with no *)
(* probe and no HTTP request, until the entry expires                      *)
C20_OneSlotAcrossPolicies ==
    /\ \A i \in 1..Len(evals) : \A j \in (i + 1)..Len(evals) :
           (evals[i].probed /\ evals[j].start - evals[i].start < _VPN_CHECK_TTL) =>
               /\ ~evals[j].probed
               /\ evals[j].result = evals[i].result
    /\ \A t \in Tasks :
           LET f == tasks[t]
           IN  (IsSome(f.policy) /\ Gated(f.policy[1]) /\ FreshAtCall(f, FALSE)) =>
                   /\ f.pc = "done"
                   /\ f.gate = Some(FALSE)
                   /\ f.outcome.kind = "ConnectivityError"
                   /\ f.tried = <<>>
                   /\ f.sent = <<>>
                   /\ f.pool = 0

(* A probe under one host list cached false; after the configuration was   *)
(* reloaded with another host list a call was refused from the cache       *)
C20_Witness ==
    \E t \in Tasks : \E i \in 1..Len(evals) : \E j \in 1..Len(evals) :
        /\ i < j
        /\ evals[i].probed
        /\ ~evals[i].result
        /\ evals[j].epoch > evals[i].epoch
        /\ ~evals[j].probed
        /\ ~evals[j].result
        /\ IsSome(tasks[t].policy)
        /\ Gated(tasks[t].policy[1])
        /\ FreshAtCall(tasks[t], FALSE)
        /\ tasks[t].outcome.kind = "ConnectivityError"
        /\ tasks[t].sent = <<>>

====
